---- MODULE Spec2Model ----
(***************************************************************************)
(* Bitcask storage engine: segmented append-only log, in-memory key        *)
(* directory, directory snapshot ("index" file), recovery on open.         *)
(* Files are modelled as byte sequences; records are encoded and decoded   *)
(* byte by byte as the codec does.                                         *)
(***************************************************************************)
EXTENDS Integers, Sequences, FiniteSets, TLC

(***************************************************************************)
(* Configuration (config.Config) and model bounds                          *)
(***************************************************************************)
MaxDatafileSize == 17
MaxKeySize == 1
MaxValueSize == 1

\* total number of records the model lets the engine append
MaxWrites == 3
\* number of times the model lets the path be opened
MaxSessions == 2

keySize == 4
valueSize == 8
checksumSize == 4

\* byte strings used as keys and values: the empty string, two strings
\* within the configured maximum, and one string one byte too long
RepeatByte(b, n) == [i \in 1..n |-> b]
OversizedKey == RepeatByte(97, MaxKeySize + 1)
OversizedValue == RepeatByte(120, MaxValueSize + 1)
Keys == {<<>>, <<97>>, <<98>>, OversizedKey}
Values == {<<>>, <<120>>, <<121>>, OversizedValue}

(***************************************************************************)
(* Byte-level helpers                                                       *)
(***************************************************************************)
\* values of unsigned fields are only ever compared with small maxima, so
\* the decoded integer saturates at Huge instead of exceeding the model checker's
\* integer range
Huge == 256 * 256 * 256 * 64
Min(a, b) == IF a < b THEN a ELSE b

RECURSIVE BigEndianAcc(_, _)
BigEndianAcc(b, acc) ==
    IF b = <<>> THEN acc
    ELSE BigEndianAcc(Tail(b), Min(Huge, acc * 256 + Head(b)))
\* binary.BigEndian.Uint32 / Uint64
BigEndianUint(b) == BigEndianAcc(b, 0)

\* binary.BigEndian.PutUint32 / PutUint64 of n into w bytes
RECURSIVE PutUint(_, _)
PutUint(n, w) ==
    IF w = 0 THEN <<>> ELSE Append(PutUint(n \div 256, w - 1), n % 256)

\* b[lo:hi] of Go, 0-based, hi exclusive
Slice(b, lo, hi) == SubSeq(b, lo + 1, hi)

RECURSIVE BitXor(_, _)
BitXor(a, b) ==
    IF a = 0 THEN b
    ELSE IF b = 0 THEN a
    ELSE ((a + b) % 2) + 2 * BitXor(a \div 2, b \div 2)

\* A 32-bit word is kept as <<high 16 bits, low 16 bits>>.
WordXor(x, y) == <<BitXor(x[1], y[1]), BitXor(x[2], y[2])>>
WordShr1(x) == <<x[1] \div 2, (x[2] \div 2) + (x[1] % 2) * 32768>>
WordShr8(x) == <<x[1] \div 256, (x[2] \div 256) + (x[1] % 256) * 256>>
IEEEPoly == <<60856, 33568>>      \* 0xEDB88320, reflected
AllOnes == <<65535, 65535>>

RECURSIVE CrcBits(_, _)
CrcBits(w, n) ==
    IF n = 0 THEN w
    ELSE CrcBits(IF w[2] % 2 = 1 THEN WordXor(WordShr1(w), IEEEPoly)
                 ELSE WordShr1(w), n - 1)
CrcTable == [i \in 0..255 |-> CrcBits(<<0, i>>, 8)]

RECURSIVE CrcUpdate(_, _)
CrcUpdate(crc, b) ==
    IF b = <<>> THEN crc
    ELSE CrcUpdate(WordXor(CrcTable[BitXor(crc[2] % 256, Head(b))],
                           WordShr8(crc)), Tail(b))
\* crc32.ChecksumIEEE, as the four big-endian bytes of the sum
ChecksumIEEE(b) ==
    LET w == WordXor(CrcUpdate(AllOnes, b), AllOnes)
    IN  <<w[1] \div 256, w[1] % 256, w[2] \div 256, w[2] % 256>>

(***************************************************************************)
(* Record codec                                                             *)
(***************************************************************************)
\* internal.NewEntry
NewEntry(key, value) ==
    [Checksum |-> ChecksumIEEE(value), Key |-> key, Value |-> value]
\* the zero value of internal.Entry
ZeroEntry == [Checksum |-> <<0, 0, 0, 0>>, Key |-> <<>>, Value |-> <<>>]

\* Encoder.Encode: the bytes written, keyLen | valueLen | key | value | checksum
EncodeBytes(e) ==
    PutUint(Len(e.Key), keySize) \o PutUint(Len(e.Value), valueSize)
        \o e.Key \o e.Value \o e.Checksum
\* Encoder.Encode: the length it returns
EncodeLen(e) == keySize + valueSize + Len(e.Key) + Len(e.Value) + checksumSize

\* as getKeyValueSizes, without the test for a key of length 0
getKeyValueSizesNoZero(b, maxKeySize, maxValueSize) ==
    LET Checked(actualKeySize, actualValueSize) ==
            IF actualKeySize > maxKeySize \/ actualValueSize > maxValueSize
            THEN [err |-> "errInvalidKeyOrValueSize", ks |-> 0, vs |-> 0]
            ELSE [err |-> "nil", ks |-> actualKeySize, vs |-> actualValueSize]
    IN  Checked(BigEndianUint(Slice(b, 0, keySize)),
                BigEndianUint(Slice(b, keySize, keySize + valueSize)))

\* getKeyValueSizes
getKeyValueSizes(b, maxKeySize, maxValueSize) ==
    LET Checked(actualKeySize, actualValueSize) ==
            IF actualKeySize > maxKeySize \/ actualValueSize > maxValueSize
               \/ actualKeySize = 0
            THEN [err |-> "errInvalidKeyOrValueSize", ks |-> 0, vs |-> 0]
            ELSE [err |-> "nil", ks |-> actualKeySize, vs |-> actualValueSize]
    IN  Checked(BigEndianUint(Slice(b, 0, keySize)),
                BigEndianUint(Slice(b, keySize, keySize + valueSize)))

\* decodeWithoutPrefix
decodeWithoutPrefix(b, actualKeySize) ==
    [Key |-> Slice(b, 0, actualKeySize),
     Value |-> Slice(b, actualKeySize, Len(b) - checksumSize),
     Checksum |-> Slice(b, Len(b) - checksumSize, Len(b))]

\* Decoder.Decode on the bytes that remain after the reader's cursor
Decode(rest, maxKeySize, maxValueSize) ==
    IF Len(rest) = 0 THEN [err |-> "EOF", e |-> ZeroEntry, n |-> 0]
    ELSE IF Len(rest) < keySize + valueSize
    THEN [err |-> "ErrUnexpectedEOF", e |-> ZeroEntry, n |-> 0]
    ELSE LET Body(s, want) ==
                 IF s.err # "nil" THEN [err |-> s.err, e |-> ZeroEntry, n |-> 0]
                 ELSE IF Len(rest) - (keySize + valueSize) < want
                 THEN [err |-> "errTruncatedData", e |-> ZeroEntry, n |-> 0]
                 ELSE [err |-> "nil",
                       e |-> decodeWithoutPrefix(
                                Slice(rest, keySize + valueSize,
                                      keySize + valueSize + want), s.ks),
                       n |-> keySize + valueSize + want]
             Sized(s) == Body(s, s.ks + s.vs + checksumSize)
         IN  Sized(getKeyValueSizes(Slice(rest, 0, keySize + valueSize),
                                    maxKeySize, maxValueSize))

\* DecodeEntry on a buffer holding one record
DecodeEntry(b, maxKeySize, maxValueSize) ==
    LET Body(s, body) ==
            IF s.err # "nil" THEN [err |-> s.err, e |-> ZeroEntry]
            ELSE IF s.ks > Len(body) - checksumSize
            THEN [err |-> "panic", e |-> ZeroEntry]
            ELSE [err |-> "nil", e |-> decodeWithoutPrefix(body, s.ks)]
    IN  Body(getKeyValueSizes(b, maxKeySize, maxValueSize),
             Slice(b, keySize + valueSize, Len(b)))

\* Decoder.Decode(e) where e may be nil
DecodeOn(nilEntry, rest, maxKeySize, maxValueSize) ==
    IF nilEntry
    THEN [err |-> "errCantDecodeOnNilEntry", e |-> ZeroEntry, n |-> 0]
    ELSE Decode(rest, maxKeySize, maxValueSize)

\* what Decoder.Decode leaves unread in its reader: io.ReadFull takes the
\* prefix, then the body, and takes whatever is there when it falls short
Unread(nilEntry, rest, maxKeySize, maxValueSize) ==
    LET After(r) ==
            IF nilEntry THEN rest
            ELSE IF r.err = "nil" THEN Slice(rest, r.n, Len(rest))
            ELSE IF r.err = "errInvalidKeyOrValueSize"
            THEN Slice(rest, keySize + valueSize, Len(rest))
            ELSE <<>>
    IN  After(DecodeOn(nilEntry, rest, maxKeySize, maxValueSize))

(***************************************************************************)
(* State                                                                    *)
(***************************************************************************)
VARIABLES
    files,      \* disk: segment id -> bytes of NNNNNNNNN.data
    index,      \* disk: the "index" snapshot file, [present, bytes]
    synced,     \* disk: bytes of the active segment known to be fsynced
    opened,     \* an engine handle is in use (between Open and Close)
    curr,       \* Bitcask.curr: the active datafile [id, offset, w]
    datafiles,  \* Bitcask.datafiles: id -> frozen datafile [id, offset, w]
    t,          \* Bitcask.t: key -> Item [FileID, Offset, Size]
    ret,        \* what the last operation returned
    writes,     \* number of records appended so far
    sessions,   \* number of times the path was opened so far
    glog,       \* history: per segment, the records appended to it
    kv,         \* history: per key, the last write of this session
    stage,      \* history: per key, progress through put / delete / put
    dur,        \* history: per key, the last write covered by a Sync
    exp,        \* history: what the engine showed when it last stopped
    decoder,    \* a Decoder on its own: the stream it reads and what it returned
    cx          \* concurrent callers: who holds Bitcask.mu, where each caller is

vars == <<files, index, synced, opened, curr, datafiles, t, ret, writes, sessions,
          glog, kv, stage, dur, exp, decoder, cx>>
\* the variables only the decoder and the concurrent callers use
apart == <<decoder, cx>>

NoFile == [id |-> 0, offset |-> 0, w |-> FALSE, ra |-> 0, encErr |-> FALSE,
           closed |-> FALSE]
EmptyMap == <<>>
Unknown == "unknown"
Absent == "absent"

\* art.Tree as a map
TInsert(tree, key, item) ==
    [k \in DOMAIN tree \cup {key} |-> IF k = key THEN item ELSE tree[k]]
TDelete(tree, key) == [k \in DOMAIN tree \ {key} |-> tree[k]]
MapPut(m, k, v) == [x \in DOMAIN m \cup {k} |-> IF x = k THEN v ELSE m[x]]

\* byte-wise lexicographic order, the order of art.Tree.ForEach
RECURSIVE LexLess(_, _)
LexLess(a, b) ==
    IF b = <<>> THEN FALSE
    ELSE IF a = <<>> THEN TRUE
    ELSE IF Head(a) # Head(b) THEN Head(a) < Head(b)
    ELSE LexLess(Tail(a), Tail(b))
RECURSIVE SortedKeys(_)
SortedKeys(S) ==
    IF S = {} THEN <<>>
    ELSE LET m == CHOOSE a \in S : \A b \in S \ {a} : LexLess(a, b)
         IN  <<m>> \o SortedKeys(S \ {m})

Max(S) == CHOOSE a \in S : \A b \in S : b <= a
RECURSIVE SortedInts(_)
SortedInts(S) ==
    IF S = {} THEN <<>>
    ELSE LET m == CHOOSE a \in S : \A b \in S : a <= b
         IN  <<m>> \o SortedInts(S \ {m})

(***************************************************************************)
(* Datafile                                                                 *)
(***************************************************************************)
Exists(F, id) == id \in DOMAIN F

\* NewDatafile: readonly opens an existing file; otherwise the file is
\* opened O_CREATE|O_APPEND. offset is the size found by os.Stat, ra the
\* length of the memory-mapped view
NewDatafile(F, id, readonly) ==
    IF readonly /\ ~Exists(F, id)
    THEN [err |-> "ENOENT", files |-> F, df |-> NoFile]
    ELSE LET Opened(F1) ==
                 [err |-> "nil", files |-> F1,
                  df |-> [id |-> id, offset |-> Len(F1[id]), w |-> ~readonly,
                          ra |-> Len(F1[id]), encErr |-> FALSE,
                          closed |-> FALSE]]
         IN  Opened(IF Exists(F, id) THEN F ELSE MapPut(F, id, <<>>))

\* datafile.ReadAt: the mapped view when there is no writer, the read handle
\* otherwise; the error of DecodeEntry is dropped
ReadAt(F, d, offset, size) ==
    LET avail == IF d.w THEN Len(F[d.id]) ELSE d.ra
    IN  IF d.closed THEN [err |-> "ErrClosed", e |-> ZeroEntry]
        ELSE IF offset + size > avail THEN [err |-> "EOF", e |-> ZeroEntry]
        ELSE LET Decoded(dec) ==
                     IF dec.err = "panic"
                     THEN [err |-> "panic", e |-> ZeroEntry]
                     ELSE [err |-> "nil", e |-> dec.e]
             IN  Decoded(DecodeEntry(Slice(F[d.id], offset, offset + size),
                                     MaxKeySize, MaxValueSize))

\* the write of the file succeeds
NoFault == -1
\* the numbers of bytes a failing write of the file may leave in it: none,
\* part of the length prefix, part of the body
Faults == {0, 5, 13}

\* as AfterFault, with a writer that forgets the error
AfterFaultForgotten(d) == d

\* the datafile after a write of its file has failed: the bufio.Writer of its
\* encoder keeps the error
AfterFault(d) == [d EXCEPT !.encErr = TRUE]

\* datafile.Write when the operating system behaves as fault says. Encode
\* writes through a bufio.Writer: once a write of the file has failed, the
\* writer keeps the error and refuses everything after it (encErr).
WriteWith(F, d, e, fault) ==
    IF ~d.w
    THEN [err |-> "errReadOnly", files |-> F, df |-> d, offset |-> -1, n |-> 0,
          wrote |-> 0]
    ELSE IF d.encErr
    THEN [err |-> "errWrite", files |-> F, df |-> d, offset |-> -1, n |-> 0,
          wrote |-> 0]
    ELSE IF d.closed
    THEN [err |-> "errWrite", files |-> F, df |-> AfterFault(d), offset |-> -1,
          n |-> 0, wrote |-> 0]
    ELSE IF fault # NoFault
    THEN [err |-> "errWrite",
          files |-> [F EXCEPT ![d.id] = @ \o SubSeq(EncodeBytes(e), 1, fault)],
          df |-> AfterFault(d),
          offset |-> -1, n |-> 0, wrote |-> fault]
    ELSE [err |-> "nil",
          files |-> [F EXCEPT ![d.id] = @ \o EncodeBytes(e)],
          df |-> [d EXCEPT !.offset = @ + EncodeLen(e)],
          offset |-> d.offset, n |-> EncodeLen(e), wrote |-> EncodeLen(e)]

\* datafile.Write
Write(F, d, e) == WriteWith(F, d, e, NoFault)

(***************************************************************************)
(* Directory snapshot                                                       *)
(***************************************************************************)
int32Size == 4
int64Size == 8
fileIDSize == int32Size
offsetSize == int64Size
sizeSize == int64Size

Item(fileID, offset, size) ==
    [FileID |-> fileID, Offset |-> offset, Size |-> size]

\* writeKey
writeKey(b) == PutUint(Len(b), int32Size) \o b
\* writeItem
writeItem(i) ==
    PutUint(i.FileID, fileIDSize) \o PutUint(i.Offset, offsetSize)
        \o PutUint(i.Size, sizeSize)

RECURSIVE writeIndexKeys(_, _)
writeIndexKeys(tree, ks) ==
    IF ks = <<>> THEN <<>>
    ELSE writeKey(Head(ks)) \o writeItem(tree[Head(ks)])
            \o writeIndexKeys(tree, Tail(ks))
\* writeIndex: the tree in ForEach order
writeIndex(tree) == writeIndexKeys(tree, SortedKeys(DOMAIN tree))

\* readKey
readKey(r, maxKeySize) ==
    IF Len(r) = 0 THEN [err |-> "EOF", key |-> <<>>, rest |-> r]
    ELSE IF Len(r) < int32Size
    THEN [err |-> "errTruncatedKeySize", key |-> <<>>, rest |-> r]
    ELSE LET Sized(size) ==
                 IF size > maxKeySize
                 THEN [err |-> "errKeySizeTooLarge", key |-> <<>>, rest |-> r]
                 ELSE IF Len(r) - int32Size < size
                 THEN [err |-> "errTruncatedKeyData", key |-> <<>>, rest |-> r]
                 ELSE [err |-> "nil",
                       key |-> Slice(r, int32Size, int32Size + size),
                       rest |-> Slice(r, int32Size + size, Len(r))]
         IN  Sized(BigEndianUint(Slice(r, 0, int32Size)))

\* readItem
readItem(r) ==
    LET w == fileIDSize + offsetSize + sizeSize
    IN  IF Len(r) < w
        THEN [err |-> "errTruncatedData", item |-> Item(0, 0, 0), rest |-> r]
        ELSE [err |-> "nil",
              item |-> Item(BigEndianUint(Slice(r, 0, fileIDSize)),
                            BigEndianUint(Slice(r, fileIDSize,
                                                fileIDSize + offsetSize)),
                            BigEndianUint(Slice(r, fileIDSize + offsetSize, w))),
              rest |-> Slice(r, w, Len(r))]

\* readIndex
RECURSIVE readIndex(_, _, _)
readIndex(tree, r, maxKeySize) ==
    LET WithItem(k, it) ==
            IF it.err # "nil" THEN [err |-> it.err, t |-> tree]
            ELSE readIndex(TInsert(tree, k.key, it.item), it.rest, maxKeySize)
        WithKey(k) ==
            IF k.err = "EOF" THEN [err |-> "nil", t |-> tree]
            ELSE IF k.err # "nil" THEN [err |-> k.err, t |-> tree]
            ELSE WithItem(k, readItem(k.rest))
    IN  WithKey(readKey(r, maxKeySize))

\* indexer.Load
Load(ix, maxKeySize) ==
    IF ~ix.present THEN [err |-> "nil", found |-> FALSE, t |-> EmptyMap]
    ELSE LET Loaded(r) == [err |-> r.err, found |-> TRUE, t |-> r.t]
         IN  Loaded(readIndex(EmptyMap, ix.bytes, maxKeySize))

\* indexer.Save
Save(tree) == [present |-> TRUE, bytes |-> writeIndex(tree)]

(***************************************************************************)
(* Engine: recovery                                                         *)
(***************************************************************************)
RECURSIVE InsertInt(_, _)
InsertInt(sorted, a) ==
    IF sorted = <<>> THEN <<a>>
    ELSE IF a <= Head(sorted) THEN <<a>> \o sorted
    ELSE <<Head(sorted)>> \o InsertInt(Tail(sorted), a)
RECURSIVE SortInts(_)
SortInts(q) == IF q = <<>> THEN <<>> ELSE InsertInt(SortInts(Tail(q)), Head(q))

\* internal.GetDatafiles: the segment files by name, which is by id
GetDatafiles(F) == SortedInts(DOMAIN F)

\* internal.ParseIds: the slice is made with len(fns) zeros and the parsed
\* ids are appended to it
ParseIds(fns) == SortInts([i \in 1..Len(fns) |-> 0] \o fns)

RECURSIVE OpenReadonly(_, _, _)
OpenReadonly(F, ids, dfs) ==
    IF ids = <<>> THEN [err |-> "nil", datafiles |-> dfs]
    ELSE LET Opened(file) ==
                 IF file.err # "nil"
                 THEN [err |-> file.err, datafiles |-> EmptyMap]
                 ELSE OpenReadonly(F, Tail(ids),
                                   MapPut(dfs, Head(ids), file.df))
         IN  Opened(NewDatafile(F, Head(ids), TRUE))

\* loadDatafiles
loadDatafiles(F) ==
    LET Loaded(ids, r) ==
            [err |-> r.err, datafiles |-> r.datafiles,
             lastID |-> IF r.err = "nil" /\ Len(ids) > 0 THEN ids[Len(ids)]
                        ELSE 0]
        Parsed(ids) == Loaded(ids, OpenReadonly(F, ids, EmptyMap))
    IN  Parsed(ParseIds(GetDatafiles(F)))

\* getSortedDatafiles
getSortedDatafiles(dfs) == SortedInts(DOMAIN dfs)

\* loadIndex, the loop run when no snapshot was found: one Read per datafile,
\* with one running offset
RECURSIVE ReplayLoop(_, _, _, _)
ReplayLoop(F, sortedDatafiles, tree, offset) ==
    IF sortedDatafiles = <<>> THEN [err |-> "nil", t |-> tree]
    ELSE LET Entry(f, r) ==
                 IF r.err = "EOF" THEN [err |-> "nil", t |-> tree]
                 ELSE IF r.err # "nil" THEN [err |-> r.err, t |-> EmptyMap]
                 ELSE IF Len(r.e.Value) = 0
                 THEN ReplayLoop(F, Tail(sortedDatafiles),
                                 TDelete(tree, r.e.Key), offset + r.n)
                 ELSE ReplayLoop(F, Tail(sortedDatafiles),
                                 TInsert(tree, r.e.Key, Item(f, offset, r.n)),
                                 offset + r.n)
         IN  Entry(Head(sortedDatafiles),
                   Decode(F[Head(sortedDatafiles)], MaxKeySize, MaxValueSize))

\* loadIndex
loadIndex(F, ix, maxKeySize, dfs) ==
    LET Loaded(l) ==
            IF l.err # "nil" THEN [err |-> l.err, t |-> EmptyMap]
            ELSE IF ~l.found
            THEN ReplayLoop(F, getSortedDatafiles(dfs), l.t, 0)
            ELSE [err |-> "nil", t |-> l.t]
    IN  Loaded(Load(ix, maxKeySize))

\* Bitcask.reopen
reopen(F, ix) ==
    LET failed == [files |-> F, curr |-> NoFile, datafiles |-> EmptyMap,
                   t |-> EmptyMap]
        Opened(d, i, c) ==
            IF d.err # "nil" THEN [err |-> d.err] @@ failed
            ELSE IF i.err # "nil" THEN [err |-> i.err] @@ failed
            ELSE [err |-> "nil", files |-> c.files, curr |-> c.df,
                  datafiles |-> d.datafiles, t |-> i.t]
        Loaded(d) == Opened(d, loadIndex(F, ix, MaxKeySize, d.datafiles),
                            NewDatafile(F, d.lastID, FALSE))
    IN  Loaded(loadDatafiles(F))

(***************************************************************************)
(* Engine: write and read paths                                             *)
(***************************************************************************)
\* the part of the state Bitcask.put works on
Core == [files |-> files, curr |-> curr, datafiles |-> datafiles,
         synced |-> synced, glog |-> glog]

LogRec(key, value, off, n) ==
    [key |-> key, value |-> value, off |-> off, n |-> n, whole |-> TRUE]

\* Bitcask.put, the rollover: the active datafile is closed (which syncs
\* it), reopened read-only into datafiles, and id+1 becomes the active one
Rollover(s) ==
    LET Rolled(id, frozen, next) ==
            [s EXCEPT !.files = next.files,
                      !.datafiles = MapPut(@, id, frozen.df),
                      !.curr = next.df,
                      !.synced = next.df.offset,
                      !.glog = IF id + 1 \in DOMAIN @ THEN @
                               ELSE MapPut(@, id + 1, <<>>)]
    IN  Rolled(s.curr.id, NewDatafile(s.files, s.curr.id, TRUE),
               NewDatafile(s.files, s.curr.id + 1, FALSE))

\* the ways NewDatafile may fail inside the rollover: opening the old id
\* read-only fails; opening id+1 fails before the file is created; opening
\* id+1 fails after os.OpenFile has created it
RolloverFaults == {"freeze", "create", "created"}

\* datafile.Close: the handles of the datafile are closed
Closed(d) == [d EXCEPT !.closed = TRUE]

\* Bitcask.put, the rollover when NewDatafile behaves as rf says: b.curr has
\* been closed and is replaced only by the last assignment
RolloverWith(s, rf) ==
    LET Failed(s1) == [err |-> "errOpen", s |-> s1]
        Frozen(id, frozen) ==
            [s EXCEPT !.curr = Closed(@),
                      !.synced = IF s.curr.closed THEN @ ELSE s.curr.offset,
                      !.datafiles = MapPut(@, id, frozen.df)]
    IN  IF rf = "freeze"
        THEN Failed([s EXCEPT !.curr = Closed(@),
                              !.synced = IF s.curr.closed THEN @
                                         ELSE s.curr.offset])
        ELSE IF rf = "create"
        THEN Failed(Frozen(s.curr.id, NewDatafile(s.files, s.curr.id, TRUE)))
        ELSE IF rf = "created"
        THEN Failed([Frozen(s.curr.id, NewDatafile(s.files, s.curr.id, TRUE))
                        EXCEPT !.files = NewDatafile(s.files, s.curr.id + 1,
                                                     FALSE).files,
                               !.glog = IF s.curr.id + 1 \in DOMAIN @ THEN @
                                        ELSE MapPut(@, s.curr.id + 1, <<>>)])
        ELSE [err |-> "nil", s |-> Rollover(s)]

\* as NeedsRollover, with the threshold compared by >=
NeedsRolloverGE(s) == s.curr.offset >= MaxDatafileSize
NeedsRollover(s) == s.curr.offset > MaxDatafileSize

\* Bitcask.put when the write of the file behaves as fault says
bputWith(s, key, value, fault) ==
    LET Written(s1, w) ==
            [err |-> w.err, offset |-> w.offset, n |-> w.n,
             s |-> [s1 EXCEPT !.files = w.files, !.curr = w.df,
                              !.glog[s1.curr.id] =
                                  IF w.err = "nil"
                                  THEN Append(@, LogRec(key, value, w.offset, w.n))
                                  ELSE IF w.wrote > 0
                                  THEN Append(@, [LogRec(key, value,
                                                         Len(s1.files[s1.curr.id]),
                                                         w.wrote)
                                                  EXCEPT !.whole = FALSE])
                                  ELSE @]]
        Active(s1) ==
            Written(s1, WriteWith(s1.files, s1.curr, NewEntry(key, value), fault))
    IN  Active(IF NeedsRollover(s) THEN Rollover(s) ELSE s)

\* Bitcask.put
bput(s, key, value) == bputWith(s, key, value, NoFault)

\* Bitcask.put when NewDatafile behaves as rf says in a rollover
bputRolling(s, key, value, rf) ==
    LET Rolled(r) ==
            IF r.err # "nil"
            THEN [err |-> r.err, offset |-> -1, n |-> 0, s |-> r.s]
            ELSE bputWith(r.s, key, value, NoFault)
    IN  IF NeedsRollover(s) THEN Rolled(RolloverWith(s, rf))
        ELSE bputWith(s, key, value, NoFault)

\* as Admission, without the check of the value's size
AdmissionNoValueCheck(key, value) ==
    IF Len(key) > MaxKeySize THEN "ErrKeyTooLarge" ELSE "nil"

\* Bitcask.Put, the size checks made before the lock is taken
Admission(key, value) ==
    IF Len(key) > MaxKeySize THEN "ErrKeyTooLarge"
    ELSE IF Len(value) > MaxValueSize THEN "ErrValueTooLarge"
    ELSE "nil"

\* Bitcask.Get on directory T, active datafile C, frozen datafiles D, disk F
GetIn(T, C, D, F, key) ==
    IF key \notin DOMAIN T THEN [err |-> "ErrKeyNotFound", value |-> <<>>]
    ELSE LET Checked(r) ==
                 IF r.err # "nil" THEN [err |-> r.err, value |-> <<>>]
                 ELSE IF ChecksumIEEE(r.e.Value) # r.e.Checksum
                 THEN [err |-> "ErrChecksumFailed", value |-> <<>>]
                 ELSE [err |-> "nil", value |-> r.e.Value]
             Located(item) ==
                 IF item.FileID # C.id /\ item.FileID \notin DOMAIN D
                 THEN [err |-> "panic", value |-> <<>>]
                 ELSE Checked(ReadAt(F, IF item.FileID = C.id THEN C
                                        ELSE D[item.FileID],
                                     item.Offset, item.Size))
         IN  Located(T[key])

Get(key) == GetIn(t, curr, datafiles, files, key)
\* Bitcask.Has
Has(key) == key \in DOMAIN t
\* Bitcask.Len
LenT == Cardinality(DOMAIN t)

(***************************************************************************)
(* History variables                                                        *)
(***************************************************************************)
Known(st, v) == [st |-> st, v |-> v]
AllUnknown == [k \in Keys |-> Known(Unknown, <<>>)]
AllAbsent == [k \in Keys |-> Known(Absent, <<>>)]
NoExp == [kind |-> "none", noIndex |-> FALSE, kv |-> AllUnknown,
          get |-> [k \in Keys |-> [err |-> "none", value |-> <<>>]]]

\* what Get has to return for a key whose last write is known
Expected(h) ==
    IF h.st = "value" THEN [err |-> "nil", value |-> h.v]
    ELSE [err |-> "ErrKeyNotFound", value |-> <<>>]

\* progress of a key through put(k,v); delete(k); put(k,v')
StageAfterPut(n) == IF n = 0 THEN 1 ELSE IF n = 2 THEN 3 ELSE n
StageAfterDelete(n) == IF n = 0 THEN 0 ELSE 2

Ret(op, key, val, err) ==
    [op |-> op, key |-> key, val |-> val, err |-> err, found |-> FALSE, n |-> 0]

\* the records of segment q that survive when the file is cut to length L
RECURSIVE CutLog(_, _)
CutLog(q, L) ==
    IF q = <<>> THEN <<>>
    ELSE LET r == Head(q)
         IN  IF r.off + r.n <= L THEN <<r>> \o CutLog(Tail(q), L)
             ELSE IF r.off < L
             THEN <<[r EXCEPT !.n = L - r.off, !.whole = FALSE]>>
             ELSE <<>>

\* no decoder is in use
NoDec == [stream |-> <<>>, nilEntry |-> FALSE, reads |-> 0, err |-> "nil",
          n |-> 0]
\* no caller is inside the engine
NoCx == [mu |-> 0]

(***************************************************************************)
(* Operations                                                               *)
(***************************************************************************)
InitEngine ==
    \E r \in {reopen(EmptyMap, [present |-> FALSE, bytes |-> <<>>])} :
        /\ files = r.files
        /\ index = [present |-> FALSE, bytes |-> <<>>]
        /\ synced = 0
        /\ opened = TRUE
        /\ curr = r.curr
        /\ datafiles = r.datafiles
        /\ t = r.t
        /\ ret = Ret("Open", <<>>, <<>>, r.err)
        /\ writes = 0
        /\ sessions = 1
        /\ glog = MapPut(EmptyMap, 0, <<>>)
        /\ kv = AllUnknown
        /\ stage = [k \in Keys |-> 0]
        /\ dur = AllUnknown
        /\ exp = NoExp

Init == InitEngine /\ decoder = NoDec /\ cx = NoCx

\* Open on a path that holds a database
Open ==
    /\ ~opened
    /\ sessions < MaxSessions
    /\ sessions' = sessions + 1
    /\ \E r \in {reopen(files, index)} :
           /\ ret' = Ret("Open", <<>>, <<>>, r.err)
           /\ IF r.err = "nil"
              THEN /\ opened' = TRUE
                   /\ files' = r.files
                   /\ curr' = r.curr
                   /\ datafiles' = r.datafiles
                   /\ t' = r.t
                   /\ synced' = r.curr.offset
              ELSE UNCHANGED <<opened, files, curr, datafiles, t, synced>>
    /\ kv' = AllUnknown
    /\ stage' = [k \in Keys |-> 0]
    /\ dur' = AllUnknown
    /\ UNCHANGED <<index, writes, glog, exp>>
    /\ UNCHANGED apart

\* Put refused by the size checks
PutRejected(key, value) ==
    /\ opened
    /\ Admission(key, value) # "nil"
    /\ ret' = Ret("Put", <<>>, <<>>, Admission(key, value))
    /\ exp' = NoExp
    /\ UNCHANGED <<files, index, synced, opened, curr, datafiles, t, writes,
                   sessions, glog, kv, stage, dur>>
    /\ UNCHANGED apart

\* the state after Bitcask.put returned r
Stored(r) ==
    /\ files' = r.s.files
    /\ curr' = r.s.curr
    /\ datafiles' = r.s.datafiles
    /\ synced' = r.s.synced
    /\ glog' = r.s.glog

\* as PutItem, with the id the active datafile had before Bitcask.put
PutItemOldID(r) == Item(curr.id, r.offset, r.n)

\* Bitcask.Put, the Item stored for the key: the id is that of the active
\* datafile after Bitcask.put returned
PutItem(r) == Item(r.s.curr.id, r.offset, r.n)

\* Bitcask.Put after the size checks, when the write of the file behaves as
\* fault says
PutWith(key, value, fault) ==
    /\ opened
    /\ Admission(key, value) = "nil"
    /\ writes < MaxWrites
    /\ \E r \in {bputWith(Core, key, value, fault)} :
           /\ Stored(r)
           /\ ret' = Ret("Put", key, value, r.err)
           /\ IF r.err = "nil"
              THEN /\ t' = TInsert(t, key, PutItem(r))
                   /\ kv' = [kv EXCEPT ![key] = Known("value", value)]
                   /\ stage' = [stage EXCEPT ![key] = StageAfterPut(@)]
                   /\ dur' = [dur EXCEPT ![key] = Known(Unknown, <<>>)]
              ELSE UNCHANGED <<t, kv, stage, dur>>
    /\ writes' = writes + 1
    /\ exp' = NoExp
    /\ UNCHANGED <<index, opened, sessions>>
    /\ UNCHANGED apart

PutAccepted(key, value) == PutWith(key, value, NoFault)

\* Bitcask.Put after the size checks, when NewDatafile behaves as rf says
PutRolling(key, value, rf) ==
    /\ opened
    /\ Admission(key, value) = "nil"
    /\ writes < MaxWrites
    /\ \E r \in {bputRolling(Core, key, value, rf)} :
           /\ Stored(r)
           /\ ret' = Ret("Put", key, value, r.err)
           /\ IF r.err = "nil"
              THEN /\ t' = TInsert(t, key, PutItem(r))
                   /\ kv' = [kv EXCEPT ![key] = Known("value", value)]
                   /\ stage' = [stage EXCEPT ![key] = StageAfterPut(@)]
                   /\ dur' = [dur EXCEPT ![key] = Known(Unknown, <<>>)]
              ELSE UNCHANGED <<t, kv, stage, dur>>
    /\ writes' = writes + 1
    /\ exp' = NoExp
    /\ UNCHANGED <<index, opened, sessions>>
    /\ UNCHANGED apart

Put(key, value) == PutRejected(key, value) \/ PutAccepted(key, value)

\* as DeleteValue, with a value that is not empty
DeleteValueNonEmpty == <<0>>

\* Bitcask.Delete, the value of the record it writes
DeleteValue == <<>>

\* Bitcask.Delete when the write of the file behaves as fault says
DeleteWith(key, fault) ==
    /\ opened
    /\ writes < MaxWrites
    /\ \E r \in {bputWith(Core, key, DeleteValue, fault)} :
           /\ Stored(r)
           /\ ret' = Ret("Delete", key, <<>>, r.err)
           /\ IF r.err = "nil"
              THEN /\ t' = TDelete(t, key)
                   /\ kv' = [kv EXCEPT ![key] = Known(Absent, <<>>)]
                   /\ stage' = [stage EXCEPT ![key] = StageAfterDelete(@)]
                   /\ dur' = [dur EXCEPT ![key] = Known(Unknown, <<>>)]
              ELSE UNCHANGED <<t, kv, stage, dur>>
    /\ writes' = writes + 1
    /\ exp' = NoExp
    /\ UNCHANGED <<index, opened, sessions>>
    /\ UNCHANGED apart

Delete(key) == DeleteWith(key, NoFault)

\* the ForEach of DeleteAll: one tombstone per key, in key order, until a
\* put fails; the write of the file for the at-th key behaves as fault says
RECURSIVE TombstoneAll(_, _, _, _)
TombstoneAll(s, ks, at, fault) ==
    IF ks = <<>> THEN [s |-> s, err |-> "nil"]
    ELSE LET Visited(r) ==
                 IF r.err # "nil" THEN [s |-> r.s, err |-> r.err]
                 ELSE TombstoneAll(r.s, Tail(ks), at - 1, fault)
         IN  Visited(bputWith(s, Head(ks), <<>>,
                              IF at = 1 THEN fault ELSE NoFault))

\* Bitcask.DeleteAll; b.t is replaced by an empty tree whatever ForEach did
DeleteAllWith(at, fault) ==
    /\ opened
    /\ writes + Cardinality(DOMAIN t) <= MaxWrites
    /\ \E r \in {TombstoneAll(Core, SortedKeys(DOMAIN t), at, fault)} :
           /\ files' = r.s.files
           /\ curr' = r.s.curr
           /\ datafiles' = r.s.datafiles
           /\ synced' = r.s.synced
           /\ glog' = r.s.glog
           /\ ret' = Ret("DeleteAll", <<>>, <<>>, r.err)
           /\ kv' = IF r.err = "nil" THEN AllAbsent ELSE AllUnknown
    /\ t' = EmptyMap
    /\ writes' = writes + Cardinality(DOMAIN t)
    /\ stage' = [k \in Keys |-> 0]
    /\ dur' = AllUnknown
    /\ exp' = NoExp
    /\ UNCHANGED <<index, opened, sessions>>
    /\ UNCHANGED apart

DeleteAll == DeleteAllWith(0, NoFault)

\* Get, Has and Len change nothing; what they return is Get(key), Has(key)
\* and LenT in the state they are called in
GetOp(key) ==
    /\ opened
    /\ Get(key).err \in {"nil", "ErrKeyNotFound", "ErrChecksumFailed", "EOF",
                         "panic", "ErrClosed"}
    /\ UNCHANGED vars

HasOp(key) ==
    /\ opened
    /\ Has(key) \in BOOLEAN
    /\ UNCHANGED vars

LenOp ==
    /\ opened
    /\ LenT >= 0
    /\ UNCHANGED vars

\* Bitcask.Sync: fsync of the active datafile
Sync ==
    /\ opened
    /\ synced' = curr.offset
    /\ dur' = kv
    /\ ret' = Ret("Sync", <<>>, <<>>, "nil")
    /\ exp' = NoExp
    /\ UNCHANGED <<files, index, opened, curr, datafiles, t, writes, sessions,
                   glog, kv, stage>>
    /\ UNCHANGED apart

\* Bitcask.Close: the snapshot is saved, every datafile is closed
Close ==
    /\ opened
    /\ index' = Save(t)
    /\ opened' = FALSE
    /\ curr' = NoFile
    /\ datafiles' = EmptyMap
    /\ t' = EmptyMap
    /\ synced' = 0
    /\ ret' = Ret("Close", <<>>, <<>>, "nil")
    /\ exp' = [kind |-> "close", noIndex |-> FALSE, kv |-> kv,
               get |-> [k \in Keys |-> Get(k)]]
    /\ kv' = AllUnknown
    /\ stage' = [k \in Keys |-> 0]
    /\ dur' = AllUnknown
    /\ UNCHANGED <<files, writes, sessions, glog>>
    /\ UNCHANGED apart

\* the lengths a crash may leave the active segment with: for every record
\* not wholly covered by an fsync, its start, a point inside its 12-byte
\* prefix, a point inside its body, and its end
CutPoints ==
    {L \in UNION {{r.off, r.off + 5, r.off + r.n - 1, r.off + r.n} :
                     r \in {glog[curr.id][i] : i \in DOMAIN glog[curr.id]}} :
        L >= synced /\ L <= Len(files[curr.id])}
        \cup {synced, Len(files[curr.id])}

\* The process stops without Close. Bytes of the active segment that no
\* fsync covered may be lost from any point on.
Crash ==
    /\ opened
    /\ \E L \in CutPoints :
          /\ files' = [files EXCEPT ![curr.id] = SubSeq(@, 1, L)]
          /\ glog' = [glog EXCEPT ![curr.id] = CutLog(@, L)]
    /\ opened' = FALSE
    /\ curr' = NoFile
    /\ datafiles' = EmptyMap
    /\ t' = EmptyMap
    /\ synced' = 0
    /\ ret' = Ret("Crash", <<>>, <<>>, "nil")
    /\ exp' = [kind |-> "crash", noIndex |-> FALSE, kv |-> dur,
               get |-> [k \in Keys |-> Get(k)]]
    /\ kv' = AllUnknown
    /\ stage' = [k \in Keys |-> 0]
    /\ dur' = AllUnknown
    /\ UNCHANGED <<index, writes, sessions>>
    /\ UNCHANGED apart

\* the operator removes the snapshot file while no engine is open
RemoveIndex ==
    /\ ~opened
    /\ index.present
    /\ index' = [present |-> FALSE, bytes |-> <<>>]
    /\ ret' = Ret("RemoveIndex", <<>>, <<>>, "nil")
    /\ exp' = [exp EXCEPT !.noIndex = TRUE]
    /\ UNCHANGED <<files, synced, opened, curr, datafiles, t, writes,
                   sessions, glog, kv, stage, dur>>
    /\ UNCHANGED apart

Next ==
    \/ Open
    \/ \E key \in Keys, value \in Values : Put(key, value)
    \/ \E key \in Keys : Delete(key)
    \/ DeleteAll
    \/ \E key \in Keys : GetOp(key)
    \/ \E key \in Keys : HasOp(key)
    \/ LenOp
    \/ Close
    \/ RemoveIndex

Spec == Init /\ [][Next]_vars

\* The writes of the same engine on a machine that may stop at any time,
\* where what an fsync covers matters.
NextCrash ==
    \/ Open
    \/ \E key \in Keys, value \in Values : PutAccepted(key, value)
    \/ \E key \in Keys : Delete(key)
    \/ DeleteAll
    \/ Sync
    \/ Close
    \/ RemoveIndex
    \/ Crash

SpecCrash == Init /\ [][NextCrash]_vars

(***************************************************************************)
(* A disk whose writes may fail                                             *)
(***************************************************************************)
NextFail ==
    \/ Open
    \/ \E key \in Keys \ {OversizedKey}, value \in Values \ {OversizedValue},
          fault \in Faults \cup {NoFault} : PutWith(key, value, fault)
    \/ \E key \in Keys \ {OversizedKey}, fault \in Faults \cup {NoFault} :
          DeleteWith(key, fault)
    \/ \E at \in 1..MaxWrites, fault \in Faults \cup {NoFault} :
          DeleteAllWith(at, fault)
    \/ \E key \in Keys : GetOp(key)
    \/ Close

SpecFail == Init /\ [][NextFail]_vars

(***************************************************************************)
(* A rollover whose NewDatafile may fail                                    *)
(***************************************************************************)
NextRoll ==
    \/ \E key \in Keys, value \in Values, rf \in RolloverFaults \cup {"none"} :
          PutRolling(key, value, rf)
    \/ \E key \in Keys : Delete(key)
    \/ \E key \in Keys : GetOp(key)

SpecRoll == Init /\ [][NextRoll]_vars

(***************************************************************************)
(* Two goroutines on one engine                                             *)
(***************************************************************************)
\* Caller 1 writes (Put, Delete, DeleteAll), caller 2 reads, syncs and
\* closes. cx.mu is the holder of b.mu (0: nobody), cx.pc the place of each
\* caller in its method, cx.closed the active datafiles whose Close has been
\* called, cx.closedFrozen the frozen ones, cx.h the datafile Sync or Close
\* got from b.curr.
hist == <<kv, stage, dur, exp, decoder, sessions, opened>>
\* the calls caller 1 makes
MaxCalls == 2

IdleCx == [mu |-> 0, pc |-> <<"idle", "idle">>, op |-> "none", todo |-> <<>>,
           val |-> <<>>, r |-> [err |-> "nil", offset |-> 0, n |-> 0],
           rop |-> "none", rkey |-> <<>>, h |-> 0, closed |-> {},
           closedFrozen |-> {}]

InitConc == InitEngine /\ decoder = NoDec /\ cx = IdleCx

\* Put, Delete, DeleteAll: b.mu.Lock()
WLock(op, key, value) ==
    /\ cx.pc[1] = "idle"
    /\ cx.mu = 0
    /\ writes < MaxCalls
    /\ op = "Put" => Admission(key, value) = "nil"
    /\ op # "Put" => value = <<>>
    /\ op = "DeleteAll" => key = <<>>
    /\ cx' = [cx EXCEPT !.mu = 1, !.pc[1] = "locked", !.op = op, !.val = value,
                        !.todo = IF op = "DeleteAll" THEN SortedKeys(DOMAIN t)
                                 ELSE <<key>>]
    /\ writes' = writes + 1
    /\ UNCHANGED <<files, index, synced, curr, datafiles, t, ret, glog>>
    /\ UNCHANGED hist

\* Bitcask.put: the size test and, past the threshold, b.curr.Close()
WSize ==
    /\ cx.pc[1] = "locked"
    /\ IF cx.todo = <<>>
       THEN cx' = [cx EXCEPT !.pc[1] = "insert"] /\ UNCHANGED synced
       ELSE IF NeedsRollover(Core)
       THEN /\ cx' = [cx EXCEPT !.pc[1] = "closed",
                                !.closed = @ \cup {curr.id}]
            /\ synced' = IF curr.id \in cx.closed THEN synced ELSE curr.offset
       ELSE cx' = [cx EXCEPT !.pc[1] = "write"] /\ UNCHANGED synced
    /\ UNCHANGED <<files, index, curr, datafiles, t, ret, writes, glog>>
    /\ UNCHANGED hist

\* Bitcask.put: b.datafiles[id] = the closed datafile opened read-only
WFreeze ==
    /\ cx.pc[1] = "closed"
    /\ \E r \in {Rollover(Core)} : datafiles' = r.datafiles
    /\ cx' = [cx EXCEPT !.pc[1] = "frozen"]
    /\ UNCHANGED <<files, index, synced, curr, t, ret, writes, glog>>
    /\ UNCHANGED hist

\* Bitcask.put: b.curr = datafile id+1
WReplace ==
    /\ cx.pc[1] = "frozen"
    /\ \E r \in {Rollover(Core)} :
           /\ files' = r.files
           /\ curr' = r.curr
           /\ synced' = r.synced
           /\ glog' = r.glog
    /\ cx' = [cx EXCEPT !.pc[1] = "write"]
    /\ UNCHANGED <<index, datafiles, t, ret, writes>>
    /\ UNCHANGED hist

\* Bitcask.put: b.curr.Write(e); a datafile whose Close has been called
\* takes no byte. In DeleteAll the traversal goes on after a success.
WWrite ==
    /\ cx.pc[1] = "write"
    /\ \E w \in {WriteWith(files, curr, NewEntry(Head(cx.todo), cx.val),
                            IF curr.id \in cx.closed THEN 0 ELSE NoFault)} :
           /\ files' = w.files
           /\ curr' = w.df
           /\ glog' = IF w.err = "nil"
                      THEN [glog EXCEPT ![curr.id] =
                               Append(@, LogRec(Head(cx.todo), cx.val,
                                                w.offset, w.n))]
                      ELSE glog
           /\ cx' = [cx EXCEPT
                        !.r = [err |-> w.err, offset |-> w.offset, n |-> w.n],
                        !.todo = IF cx.op = "DeleteAll" THEN Tail(@) ELSE @,
                        !.pc[1] = IF cx.op = "DeleteAll" /\ w.err = "nil"
                                  THEN "locked" ELSE "insert"]
    /\ UNCHANGED <<index, synced, datafiles, t, ret, writes>>
    /\ UNCHANGED hist

\* the update of b.t and the deferred b.mu.Unlock()
WInsert ==
    /\ cx.pc[1] = "insert"
    /\ t' = IF cx.op = "DeleteAll" THEN EmptyMap
            ELSE IF cx.r.err # "nil" THEN t
            ELSE IF cx.op = "Put"
            THEN TInsert(t, Head(cx.todo), Item(curr.id, cx.r.offset, cx.r.n))
            ELSE TDelete(t, Head(cx.todo))
    /\ ret' = Ret(cx.op, IF cx.op = "DeleteAll" THEN <<>> ELSE Head(cx.todo),
                  cx.val, cx.r.err)
    /\ cx' = [cx EXCEPT !.mu = 0, !.pc[1] = "idle", !.op = "none",
                        !.todo = <<>>, !.val = <<>>,
                        !.r = [err |-> "nil", offset |-> 0, n |-> 0]]
    /\ UNCHANGED <<files, index, synced, curr, datafiles, writes, glog>>
    /\ UNCHANGED hist

\* Get, Has, Len: b.mu.Lock()
RLock(op, key) ==
    /\ cx.pc[2] = "idle"
    /\ cx.mu = 0
    /\ op = "Len" => key = <<>>
    /\ cx' = [cx EXCEPT !.mu = 2, !.pc[2] = "reading", !.rop = op,
                        !.rkey = key]
    /\ UNCHANGED <<files, index, synced, curr, datafiles, t, ret, writes, glog>>
    /\ UNCHANGED hist

\* the datafile Get reads for key has been closed
ReadsClosed(key) ==
    /\ key \in DOMAIN t
    /\ IF t[key].FileID = curr.id THEN curr.id \in cx.closed
       ELSE t[key].FileID \in cx.closedFrozen

\* Get, Has, Len: the read and b.mu.Unlock()
RRead ==
    /\ cx.pc[2] = "reading"
    /\ ret' = IF cx.rop = "Get"
              THEN IF ReadsClosed(cx.rkey)
                   THEN Ret("Get", cx.rkey, <<>>, "ErrClosed")
                   ELSE Ret("Get", cx.rkey, Get(cx.rkey).value,
                            Get(cx.rkey).err)
              ELSE IF cx.rop = "Has"
              THEN [Ret("Has", cx.rkey, <<>>, "nil") EXCEPT
                       !.found = Has(cx.rkey)]
              ELSE [Ret("Len", <<>>, <<>>, "nil") EXCEPT !.n = LenT]
    /\ cx' = [cx EXCEPT !.mu = 0, !.pc[2] = "idle", !.rop = "none",
                        !.rkey = <<>>]
    /\ UNCHANGED <<files, index, synced, curr, datafiles, t, writes, glog>>
    /\ UNCHANGED hist

\* Bitcask.Sync: b.curr is read; b.mu is not taken
SyncRead ==
    /\ cx.pc[2] = "idle"
    /\ cx' = [cx EXCEPT !.pc[2] = "sync", !.h = curr.id]
    /\ UNCHANGED <<files, index, synced, curr, datafiles, t, ret, writes, glog>>
    /\ UNCHANGED hist

\* Bitcask.Sync: Sync() of the datafile it got
SyncCall ==
    /\ cx.pc[2] = "sync"
    /\ IF cx.h \in cx.closed
       THEN ret' = Ret("Sync", <<>>, <<>>, "ErrClosed") /\ UNCHANGED synced
       ELSE ret' = Ret("Sync", <<>>, <<>>, "nil") /\ synced' = curr.offset
    /\ cx' = [cx EXCEPT !.pc[2] = "idle"]
    /\ UNCHANGED <<files, index, curr, datafiles, t, writes, glog>>
    /\ UNCHANGED hist

\* Bitcask.Close: b.indexer.Save(b.t, ...); b.mu is not taken
CloseSave ==
    /\ cx.pc[2] = "idle"
    /\ index' = Save(t)
    /\ cx' = [cx EXCEPT !.pc[2] = "closeFrozen"]
    /\ UNCHANGED <<files, synced, curr, datafiles, t, ret, writes, glog>>
    /\ UNCHANGED hist

\* Bitcask.Close: Close() of every datafile in b.datafiles
CloseFrozen ==
    /\ cx.pc[2] = "closeFrozen"
    /\ cx' = [cx EXCEPT !.pc[2] = "closeCurr",
                        !.closedFrozen = DOMAIN datafiles]
    /\ UNCHANGED <<files, index, synced, curr, datafiles, t, ret, writes, glog>>
    /\ UNCHANGED hist

\* Bitcask.Close: b.curr.Close(); the caller makes no call after it
CloseCurr ==
    /\ cx.pc[2] = "closeCurr"
    /\ cx' = [cx EXCEPT !.pc[2] = "gone", !.h = curr.id,
                        !.closed = @ \cup {curr.id}]
    /\ synced' = IF curr.id \in cx.closed THEN synced ELSE curr.offset
    /\ ret' = Ret("Close", <<>>, <<>>,
                  IF curr.id \in cx.closed THEN "ErrClosed" ELSE "nil")
    /\ UNCHANGED <<files, index, curr, datafiles, t, writes, glog>>
    /\ UNCHANGED hist

NextConc ==
    \/ \E key \in Keys, value \in Values : WLock("Put", key, value)
    \/ \E key \in Keys : WLock("Delete", key, <<>>)
    \/ WLock("DeleteAll", <<>>, <<>>)
    \/ WSize
    \/ WFreeze
    \/ WReplace
    \/ WWrite
    \/ WInsert
    \/ \E key \in Keys : RLock("Get", key)
    \/ \E key \in Keys : RLock("Has", key)
    \/ RLock("Len", <<>>)
    \/ RRead
    \/ SyncRead
    \/ SyncCall
    \/ CloseSave
    \/ CloseFrozen
    \/ CloseCurr

SpecConc == InitConc /\ [][NextConc]_vars

(***************************************************************************)
(* A disk that alters stored bytes                                          *)
(***************************************************************************)
\* every record on disk is as Encoder.Encode wrote it
Intact ==
    \A id \in DOMAIN glog : \A r \in {glog[id][i] : i \in DOMAIN glog[id]} :
        Slice(files[id], r.off, r.off + r.n) = EncodeBytes(NewEntry(r.key, r.value))

\* the positions of segment id that hold the value or the checksum of a record
ValueOrChecksumAt(id) ==
    UNION {(r.off + keySize + valueSize + Len(r.key) + 1)..(r.off + r.n) :
               r \in {glog[id][i] : i \in DOMAIN glog[id]}}

FlipLowBit(b) == IF b % 2 = 0 THEN b + 1 ELSE b - 1

\* the medium alters one stored byte of a value or of a checksum; the engine
\* is not involved
Corrupt ==
    /\ opened
    /\ Intact
    /\ \E id \in DOMAIN glog : \E pos \in ValueOrChecksumAt(id) :
           files' = [files EXCEPT ![id][pos] = FlipLowBit(@)]
    /\ UNCHANGED <<index, synced, opened, curr, datafiles, t, ret, writes,
                   sessions, glog, kv, stage, dur, exp>>
    /\ UNCHANGED apart

\* one session of the engine on such a disk
NextCorrupt ==
    \/ \E key \in Keys, value \in Values : Put(key, value)
    \/ \E key \in Keys : Delete(key)
    \/ \E key \in Keys : GetOp(key)
    \/ \E key \in Keys : HasOp(key)
    \/ LenOp
    \/ Corrupt

SpecCorrupt == Init /\ [][NextCorrupt]_vars

(***************************************************************************)
(* The decoder on its own                                                   *)
(***************************************************************************)
MaxRecords == 2

\* the streams a Decoder is given: every prefix of a record whose prefix
\* announces a key of 0..max_key_size+1 and a value of 0..max_value_size+1
\* bytes, alone or after one whole record
RecordBytes(kl, vl) ==
    PutUint(kl, keySize) \o PutUint(vl, valueSize)
        \o RepeatByte(7, kl + vl + checksumSize)
Prefixes(b) == {SubSeq(b, 1, L) : L \in 0..Len(b)}
Singles ==
    UNION {Prefixes(RecordBytes(kl, vl)) :
               kl \in 0..(MaxKeySize + 1), vl \in 0..(MaxValueSize + 1)}
Streams ==
    Singles \cup {RecordBytes(1, vl) \o b : vl \in 0..MaxValueSize, b \in Singles}

InitDecode ==
    /\ InitEngine
    /\ cx = NoCx
    /\ decoder \in {[NoDec EXCEPT !.stream = b, !.nilEntry = z] :
                       b \in Streams, z \in BOOLEAN}

\* the caller's loop: Decode again after every record it got
DecodeNext ==
    /\ decoder.err = "nil"
    /\ decoder.reads < MaxRecords
    /\ \E r \in {DecodeOn(decoder.nilEntry, decoder.stream, MaxKeySize,
                           MaxValueSize)} :
           decoder' = [decoder EXCEPT
                          !.stream = Unread(decoder.nilEntry, decoder.stream,
                                            MaxKeySize, MaxValueSize),
                          !.reads = @ + 1, !.err = r.err, !.n = r.n]
    /\ UNCHANGED <<files, index, synced, opened, curr, datafiles, t, ret,
                   writes, sessions, glog, kv, stage, dur, exp, cx>>

SpecDecode == InitDecode /\ [][DecodeNext]_vars

(***************************************************************************)
(* Properties                                                               *)
(***************************************************************************)
NotFound == [err |-> "ErrKeyNotFound", value |-> <<>>]
Found(v) == [err |-> "nil", value |-> v]
ValidKey(k) == Len(k) > 0 /\ Len(k) <= MaxKeySize
GetNext(k) == GetIn(t', curr', datafiles', files', k)
LogRecords(id) == {glog[id][i] : i \in DOMAIN glog[id]}

\* C1: in an open session, for every non-empty key within max_key_size whose
\* last write of the session is a successful put(k, v), with no delete(k) or
\* delete_all after it, get(k) returns exactly v, rollover or not.
C1_GetReturnsLastPut ==
    opened =>
        \A k \in Keys :
            (ValidKey(k) /\ kv[k].st = "value") => Get(k) = Found(kv[k].v)

\* an overwritten key whose two puts are in different segments
C1_Witness ==
    /\ opened
    /\ sessions = 1
    /\ \E k \in Keys :
          /\ ValidKey(k) /\ kv[k].st = "value" /\ Len(kv[k].v) > 0
          /\ t[k].FileID = 1
          /\ \E r \in LogRecords(0) :
                r.key = k /\ Len(r.value) > 0 /\ r.value # kv[k].v

\* C2: after put(k,v) followed by delete(k), get(k) returns key-not-found and
\* has(k) is false; after a later put(k, v'), get(k) returns v'.
C2_Tombstone ==
    opened =>
        \A k \in Keys :
            /\ stage[k] = 2 => (Get(k) = NotFound /\ ~Has(k))
            /\ (stage[k] = 3 /\ kv[k].st = "value") => Get(k) = Found(kv[k].v)

\* what the engine has to answer for key k after it stopped: the last write
\* of the session that stopped, or what it answered when it stopped for a
\* key that session did not write
AtStop(k) == IF exp.kv[k].st = Unknown THEN exp.get[k] ELSE Expected(exp.kv[k])

\* C3: after puts and deletes and a successful close, a fresh open of the
\* same path succeeds, and get(k) returns the last-written value for every
\* key live at close and key-not-found for every other key.
C3_DurableAcrossReopen ==
    (ret.op = "Open" /\ exp.kind = "close" /\ ~exp.noIndex) =>
        /\ ret.err = "nil"
        /\ \A k \in Keys : Get(k) = AtStop(k)

\* C4: after close, removing the index file and reopening gives an engine
\* whose get(k) is, for every key, what it was before close.
C4_ReplayEquivalence ==
    (ret.op = "Open" /\ exp.kind = "close" /\ exp.noIndex) =>
        /\ ret.err = "nil"
        /\ \A k \in Keys : Get(k) = exp.get[k]

\* C5: every put or delete that completed before a successful sync is
\* reflected by the engine reopened after a stop without close, whether or
\* not a snapshot of an earlier close is present.
C5_SyncBarrier ==
    (ret.op = "Open" /\ exp.kind = "crash") =>
        \A k \in Keys :
            exp.kv[k].st # Unknown =>
                (ret.err = "nil" /\ Get(k) = Expected(exp.kv[k]))

\* the tombstone of key k, byte by byte
TombstoneBytes(k) ==
    PutUint(Len(k), 4) \o <<0, 0, 0, 0, 0, 0, 0, 0>> \o k \o <<0, 0, 0, 0>>

\* a put that meets an active segment larger than max_datafile_size
RolledOver(k, v) ==
    /\ curr.id \in DOMAIN datafiles'
    /\ ~datafiles'[curr.id].w
    /\ curr'.id = curr.id + 1
    /\ curr'.w
    /\ files'[curr.id] = files[curr.id]
    /\ files'[curr.id + 1] = EncodeBytes(NewEntry(k, v))
    /\ t'[k].FileID = curr.id + 1
    /\ t'[k].Offset = 0
    /\ \A k2 \in Keys \ {k} : Get(k2).err = "nil" => GetNext(k2) = Get(k2)

NotRolledOver ==
    /\ curr'.id = curr.id
    /\ datafiles' = datafiles
    /\ DOMAIN files' = DOMAIN files

SegmentIdsContiguous ==
    opened =>
        /\ DOMAIN files = 0..curr.id
        /\ DOMAIN datafiles \cup {curr.id} = 0..curr.id

\* C6: a put that finds the active segment's size strictly greater than
\* max_datafile_size freezes the old active id, makes id + 1 the active
\* segment, appends the record there and gives the directory entry the new
\* id; a put that finds it smaller or equal does not roll; the segment ids in
\* use are contiguous and ascending, and every key get could retrieve before
\* the rollover is retrieved with the same value after it.
C6_Rollover ==
    /\ [][\A k \in Keys, v \in Values :
            (opened /\ ret'.key = k /\ ret'.val = v /\ PutAccepted(k, v)) =>
                IF curr.offset > MaxDatafileSize THEN RolledOver(k, v)
                ELSE NotRolledOver]_vars
    /\ []SegmentIdsContiguous

\* a put has just rolled the log over, and a key of the frozen segment is
\* still read
C6_Witness ==
    /\ opened
    /\ ret.op = "Put" /\ ret.err = "nil"
    /\ curr.id = 1 /\ 0 \in DOMAIN datafiles
    /\ Len(glog[1]) = 1
    /\ ret.key \in DOMAIN t /\ t[ret.key].FileID = 1
    /\ \E k2 \in DOMAIN t :
          k2 # ret.key /\ t[k2].FileID = 0 /\ Get(k2).err = "nil"
             /\ Len(Get(k2).value) > 0

\* the directory a replay of the whole records of every segment, in segment
\* and then file order, stands for: key -> value of its last record
RECURSIVE RefFold(_, _)
RefFold(q, m) ==
    IF q = <<>> THEN m
    ELSE LET r == Head(q)
         IN  RefFold(Tail(q),
                     IF ~r.whole THEN m
                     ELSE IF r.value = <<>>
                     THEN [k \in DOMAIN m \ {r.key} |-> m[k]]
                     ELSE MapPut(m, r.key, r.value))
RECURSIVE RefSegments(_, _)
RefSegments(ids, m) ==
    IF ids = <<>> THEN m
    ELSE RefSegments(Tail(ids), RefFold(glog[Head(ids)], m))
RefDir == RefSegments(SortedInts(DOMAIN glog), EmptyMap)
RefGet(k) == IF k \in DOMAIN RefDir THEN Found(RefDir[k]) ELSE NotFound

LastId == Max(DOMAIN files)
\* the last segment ends in a cut record and no other record is cut
TailCut ==
    /\ glog[LastId] # <<>>
    /\ \A id \in DOMAIN glog : \A i \in DOMAIN glog[id] :
          glog[id][i].whole <=> ~(id = LastId /\ i = Len(glog[id]))
\* a segment other than the last holds a cut record
EarlierCut ==
    \E id \in DOMAIN glog : id # LastId /\ \E r \in LogRecords(id) : ~r.whole

\* C7: when the last segment ends in a partial record, open without a
\* snapshot succeeds and the engine exposes every key except the one of the
\* cut record; a cut record in a segment other than the last makes open fail.
C7_TruncatedTail ==
    (ret.op = "Open" /\ ~index.present) =>
        /\ TailCut =>
              /\ ret.err = "nil"
              /\ \A k \in Keys \ {glog[LastId][Len(glog[LastId])].key} :
                    Get(k) = RefGet(k)
        /\ EarlierCut => ret.err # "nil"

\* the disk, the datafiles and the directory are what they were
EngineUnchanged ==
    UNCHANGED <<files, index, synced, opened, curr, datafiles, t, writes, glog>>

\* C8: put with len(key) > max_key_size returns key-too-large, and put with
\* len(value) > max_value_size and a key within max_key_size returns
\* value-too-large; in both cases no record is appended, nothing rolls over
\* and the directory is unchanged (Get, Has and Len read nothing else).
C8_Admission ==
    [][\A k \in Keys, v \in Values :
          (opened /\ (Len(k) > MaxKeySize \/ Len(v) > MaxValueSize)
             /\ Put(k, v)) =>
              /\ ret'.err = IF Len(k) > MaxKeySize THEN "ErrKeyTooLarge"
                            ELSE "ErrValueTooLarge"
              /\ EngineUnchanged]_vars

\* a put was refused for its value while the database holds a key
C8_Witness ==
    /\ opened
    /\ ret.op = "Put" /\ ret.err = "ErrValueTooLarge"
    /\ DOMAIN t # {}

\* C8 as first stated: every put with len(value) > max_value_size returns
\* value-too-large, whatever its key.
C8_AsStated ==
    [][\A k \in Keys, v \in Values :
          (opened /\ Put(k, v)) =>
              /\ Len(k) > MaxKeySize =>
                    (ret'.err = "ErrKeyTooLarge" /\ EngineUnchanged)
              /\ Len(v) > MaxValueSize =>
                    (ret'.err = "ErrValueTooLarge" /\ EngineUnchanged)]_vars

\* C9: put with an empty key is rejected with an empty-key error, appends no
\* record and leaves the directory unchanged.
C9_EmptyKeyRejected ==
    [][\A v \in Values :
          (opened /\ Put(<<>>, v) /\ Len(v) <= MaxValueSize) =>
              (ret'.err = "ErrEmptyKey" /\ EngineUnchanged)]_vars

\* the whole log, with one record appended to the segment that is active
\* after the step
AppendedOnly(bytes) ==
    /\ DOMAIN files' = DOMAIN files \cup {curr'.id}
    /\ \A id \in DOMAIN files : id # curr'.id => files'[id] = files[id]
    /\ files'[curr'.id] =
          (IF curr'.id \in DOMAIN files THEN files[curr'.id] ELSE <<>>)
              \o bytes

ConfigSync == TRUE

\* C13: with sync = true in the configuration, every successful put and
\* tombstone append has synced the active segment when it returns.
C13_SyncAfterWrite ==
    (ConfigSync /\ opened /\ ret.op \in {"Put", "Delete", "DeleteAll"}
       /\ ret.err = "nil") => synced = curr.offset

\* C15: between open and close the active segment's id is not a key of the
\* frozen segment map and is greater than every frozen segment id.
C15_SegmentSet ==
    opened =>
        /\ curr.id \notin DOMAIN datafiles
        /\ \A i \in DOMAIN datafiles : i < curr.id

\* the record a directory entry locates
RecordAt(item) ==
    {r \in LogRecords(item.FileID) : r.off = item.Offset /\ r.n = item.Size}

\* C16: no directory entry points at a tombstone record: every key of the
\* directory locates a record of that key whose value is not empty.
C16_NoTombstoneEntries ==
    opened =>
        \A k \in DOMAIN t :
            \E r \in RecordAt(t[k]) : r.key = k /\ r.value # <<>>

\* the directory of the reference replay: every record of every segment in
\* ascending id and then file order, a tombstone removing the key, any other
\* record mapping it to {segment id, offset within the segment, length}
RECURSIVE RefItemsFold(_, _, _)
RefItemsFold(id, q, m) ==
    IF q = <<>> THEN m
    ELSE RefItemsFold(id, Tail(q),
                      IF Head(q).value = <<>> THEN TDelete(m, Head(q).key)
                      ELSE TInsert(m, Head(q).key,
                                   Item(id, Head(q).off, Head(q).n)))
RECURSIVE RefItemsSegments(_, _)
RefItemsSegments(ids, m) ==
    IF ids = <<>> THEN m
    ELSE RefItemsSegments(Tail(ids), RefItemsFold(Head(ids), glog[Head(ids)], m))
RefItems == RefItemsSegments(SortedInts(DOMAIN glog), EmptyMap)

\* every record on disk is whole and has a key of 1..max_key_size bytes
WellFormedLog ==
    \A id \in DOMAIN glog : \A r \in LogRecords(id) : r.whole /\ ValidKey(r.key)

\* C17: opened without a snapshot over segments of well-formed records, the
\* engine has the directory of the reference replay.
C17_ReplayReference ==
    (ret.op = "Open" /\ sessions > 1 /\ ~index.present /\ WellFormedLog) =>
        (ret.err = "nil" /\ t = RefItems)

\* C19: the active segment's size() is the length of its file, and the byte
\* ranges of the directory entries of one segment lie within the segment
\* and do not overlap.
C19_LengthAccounting ==
    opened =>
        /\ curr.offset = Len(files[curr.id])
        /\ \A k \in DOMAIN t :
              /\ t[k].FileID \in DOMAIN files
              /\ t[k].Offset + t[k].Size <= Len(files[t[k].FileID])
        /\ \A k1 \in DOMAIN t, k2 \in DOMAIN t :
              (k1 # k2 /\ t[k1].FileID = t[k2].FileID) =>
                  \/ t[k1].Offset + t[k1].Size <= t[k2].Offset
                  \/ t[k2].Offset + t[k2].Size <= t[k1].Offset

\* the sizes a 12-byte prefix announces
AnnouncedKey(b) == BigEndianUint(SubSeq(b, 1, 4))
AnnouncedValue(b) == BigEndianUint(SubSeq(b, 5, 12))
InvalidPrefix(b) ==
    \/ AnnouncedKey(b) = 0
    \/ AnnouncedKey(b) > MaxKeySize
    \/ AnnouncedValue(b) > MaxValueSize
FullLength(b) == 12 + AnnouncedKey(b) + AnnouncedValue(b) + 4

\* C20: a sequential read of a stream that ends at a record boundary gives
\* io.EOF; a prefix with key_len = 0, key_len > max_key_size or
\* value_len > max_value_size gives the invalid-size error; a stream that
\* ends inside the prefix or inside the body gives a truncation error that is
\* not io.EOF; a nil entry gives an error; every error reports 0 bytes.
C20_DecoderOutcomes ==
    [][DecodeNext =>
          LET b == decoder.stream
              out == decoder'
          IN  /\ out.err # "nil" => out.n = 0
              /\ IF decoder.nilEntry THEN out.err = "errCantDecodeOnNilEntry"
                 ELSE IF b = <<>> THEN out.err = "EOF"
                 ELSE IF Len(b) < 12
                 THEN out.err = "ErrUnexpectedEOF"
                 ELSE IF InvalidPrefix(b)
                 THEN out.err = "errInvalidKeyOrValueSize"
                 ELSE IF Len(b) < FullLength(b)
                 THEN out.err = "errTruncatedData"
                 ELSE out.err = "nil" /\ out.n = FullLength(b)]_vars

\* a second read found the stream ending inside the body of a record
C20_Witness ==
    /\ decoder.reads = 2
    /\ decoder.err = "errTruncatedData"
    /\ decoder.n = 0
    /\ ~decoder.nilEntry

\* the bytes on disk where the record of live key k keeps its value and its
\* checksum
StoredValue(k) ==
    Slice(files[t[k].FileID], t[k].Offset + keySize + valueSize + Len(k),
          t[k].Offset + t[k].Size - checksumSize)
StoredChecksum(k) ==
    Slice(files[t[k].FileID], t[k].Offset + t[k].Size - checksumSize,
          t[k].Offset + t[k].Size)
ChecksumMismatch(k) == ChecksumIEEE(StoredValue(k)) # StoredChecksum(k)

\* C11: when the value bytes on disk of a live key no longer match the stored
\* checksum of its record, Get of the key returns ErrChecksumFailed and the
\* key stays in the directory.
C11_ChecksumProtection ==
    opened => \A k \in DOMAIN t :
                 ChecksumMismatch(k) =>
                     /\ Get(k).err = "ErrChecksumFailed"
                     /\ Has(k)
                     /\ LenT = Cardinality(DOMAIN t)

\* the places of the records of log g
Places(g) == UNION {{<<id, i>> : i \in DOMAIN g[id]} : id \in DOMAIN g}
\* the records the step has appended, whole or not
NewPlaces == Places(glog') \ Places(glog)
\* the step has appended one whole tombstone for every key of ks, no more
TombstonesFor(ks) ==
    /\ Cardinality(NewPlaces) = Cardinality(ks)
    /\ {glog'[p[1]][p[2]].key : p \in NewPlaces} = ks
    /\ \A p \in NewPlaces :
          /\ glog'[p[1]][p[2]].value = <<>>
          /\ glog'[p[1]][p[2]].whole
          /\ Slice(files'[p[1]], glog'[p[1]][p[2]].off,
                   glog'[p[1]][p[2]].off + glog'[p[1]][p[2]].n)
                 = TombstoneBytes(glog'[p[1]][p[2]].key)
\* every record that was on disk is still there
LogKept ==
    \A id \in DOMAIN files :
        /\ id \in DOMAIN files'
        /\ SubSeq(files'[id], 1, Len(files[id])) = files[id]

\* C12: when every tombstone write succeeds, DeleteAll appends one tombstone
\* per key of the directory and leaves the directory empty; when a tombstone
\* write fails it stops, keeps what is on disk, returns the error and leaves
\* the directory as it was before the call.
C12_DeleteAllConservative ==
    [][(opened /\ ret'.op = "DeleteAll"
          /\ \E at \in 1..MaxWrites, fault \in Faults \cup {NoFault} :
                DeleteAllWith(at, fault)) =>
          /\ LogKept
          /\ IF ret'.err = "nil"
             THEN TombstonesFor(DOMAIN t) /\ t' = EmptyMap
             ELSE t' = t]_vars

\* the step is a Put or a Delete that got past the size checks: both count
\* their call in writes and leave their arguments in ret. It has appended a
\* whole record for (k, v) to the active segment
WholeAppend(k, v) == AppendedOnly(EncodeBytes(NewEntry(k, v)))
\* the length the active segment is taken to have is what it was, or what
\* the file had when a rollover opened it
LogicalOffsetKept ==
    curr'.offset = IF curr'.id = curr.id THEN curr.offset
                   ELSE IF curr'.id \in DOMAIN files THEN Len(files[curr'.id])
                   ELSE 0
\* the directory entry of k names the bytes of one whole record of k
DirectedAtWholeRecord(k) ==
    /\ t[k].FileID \in DOMAIN files
    /\ t[k].Offset + t[k].Size <= Len(files[t[k].FileID])
    /\ \E v \in Values :
          Slice(files[t[k].FileID], t[k].Offset, t[k].Offset + t[k].Size)
              = EncodeBytes(NewEntry(k, v))

\* C18: when the append of the record fails inside Put or Delete, the
\* operation returns the error, the directory is not modified and the
\* logical offset of the active segment does not advance; no directory entry
\* ever names a partially written record.
C18_FailedWriteInvisible ==
    /\ [][(opened /\ ret'.op \in {"Put", "Delete"} /\ writes' = writes + 1
             /\ ~WholeAppend(ret'.key, ret'.val)) =>
              /\ ret'.err # "nil"
              /\ t' = t
              /\ LogicalOffsetKept]_vars
    /\ [](opened => \A k \in DOMAIN t : DirectedAtWholeRecord(k))

\* a put failed with part of its record on disk while the directory holds a
\* key, and the writes after it were refused
C18_Witness ==
    /\ opened
    /\ ret.op \in {"Put", "Delete"} /\ ret.err # "nil"
    /\ DOMAIN t # {}
    /\ Len(files[curr.id]) > curr.offset
    /\ writes = MaxWrites

\* the places where a caller is working on b.curr, b.datafiles or b.t
InsideWriter == {"locked", "closed", "frozen", "write", "insert"}
InsideReader == {"reading", "sync", "closeFrozen", "closeCurr"}
\* caller 1 has closed the active datafile and not yet replaced it
MidRollover == cx.pc[1] \in {"closed", "frozen"}

\* C14: every public operation holds b.mu while it works on the active
\* datafile, the frozen datafiles or the directory; so Sync and Close never
\* act on an active datafile that a concurrent put has closed and not yet
\* replaced.
C14_MutexHeld ==
    /\ cx.pc[1] \in InsideWriter => cx.mu = 1
    /\ cx.pc[2] \in InsideReader => cx.mu = 2
    /\ ~(MidRollover /\ cx.pc[2] = "sync" /\ cx.h \in cx.closed)
    /\ ~(MidRollover /\ cx.pc[2] = "closeCurr")

\* the record passes the size validation of getKeyValueSizes
PassesSizeValidation(r) ==
    /\ Len(r.key) >= 1
    /\ Len(r.key) <= MaxKeySize
    /\ Len(r.value) <= MaxValueSize

\* C21: every record Put, Delete and DeleteAll append passes the decoder's
\* size validation under the same configuration, so no Open that replays the
\* log fails with the invalid-size error; Delete of an empty or over-long key
\* appends nothing.
C21_LogReplayable ==
    /\ \A id \in DOMAIN glog : \A r \in LogRecords(id) : PassesSizeValidation(r)
    /\ ret.op = "Open" => ret.err # "errInvalidKeyOrValueSize"

\* the bytes the directory entry of k names, when the file holds them
LocatedBytes(k) ==
    IF t[k].FileID \in DOMAIN files
    THEN Slice(files[t[k].FileID], t[k].Offset,
               Min(t[k].Offset + t[k].Size, Len(files[t[k].FileID])))
    ELSE <<>>
\* the value bytes of a record, by its own length prefix
ValueBytes(b) ==
    Slice(b, 12 + AnnouncedKey(b), 12 + AnnouncedKey(b) + AnnouncedValue(b))

\* C22: whenever Get(k) returns without error, the bytes read at k's
\* directory entry pass the size validation and the value returned is the
\* value of that record; a record that fails the validation makes Get return
\* an error.
C22_GetDecodes ==
    opened => \A k \in DOMAIN t :
                 Get(k).err = "nil" =>
                     /\ Len(LocatedBytes(k)) = t[k].Size
                     /\ Len(LocatedBytes(k)) >= 12 + checksumSize
                     /\ ~InvalidPrefix(LocatedBytes(k))
                     /\ Get(k).value = ValueBytes(LocatedBytes(k))

\* C23: when the rollover of a put fails in NewDatafile, the put returns an
\* error, the directory is unchanged, every key Get could read before is
\* read the same afterwards, and the active datafile is not left closed.
C23_FailedRolloverHarmless ==
    [][(opened /\ ret'.op = "Put" /\ writes' = writes + 1
          /\ NeedsRollover(Core) /\ curr'.id = curr.id) =>
          /\ ret'.err # "nil"
          /\ t' = t
          /\ ~curr'.closed
          /\ \A k \in Keys : Get(k).err = "nil" => GetNext(k) = Get(k)]_vars
====
